---- MODULE Spec2Model ----
(***************************************************************************)
(* Token-bucket rate limiter of middleware/rate_limiter.go: the limiter    *)
(* store with its cleanup goroutine, GetLimiter, Allow, and the four Gin   *)
(* rate-limit middlewares, run by concurrent request goroutines.           *)
(*                                                                         *)
(* The module also covers the API-key, JWT, request-ID and recovery        *)
(* middlewares acting on one Gin context (SpecGin) and the citizen-ID       *)
(* helpers of helper/validate.go (SpecValidate).                            *)
(*                                                                         *)
(* Time is an integer count of clock ticks (Go's time.Duration is an       *)
(* integer count too).  One tick stands for the period of the cleanup      *)
(* ticker, 10 minutes, so the 30-minute idle threshold is 3 ticks.         *)
(***************************************************************************)
EXTENDS Integers, Sequences, FiniteSets, TLC

\* ---- bounds of the model ----
MaxRequests == 2
MaxWindow == 5
MaxTime == 4
MaxNegative == 1
MaxIDs == 2

\* ---- program constants ----
CleanupInterval == 1
IdleThreshold == 3
StatusTooManyRequests == 429
StatusUnauthorized == 401
StatusInternalServerError == 500
StatusOK == 200

Handlers == {"h1", "h2"}
IPs == {"ip1", "ip2"}
Kinds == {"user", "ip", "apikey", "custom"}
Keys == IPs \cup {"u1"}
NoValue == [type |-> "none", val |-> ""]
Free == "free"
Sweeper == "sweeper"

VARIABLES
    kind, maxRequests, window, mwState, workers, traffic, watch, audit,
    now, tickerC,
    storeMu, limiters, heap, limMu,
    pc, req, clientID, limiter, allowed, resp,
    spc, sweepNow, todo, cur,
    hist, recent,
    apiKey, c, uuidGen,
    citizen, verdict

vars == << kind, maxRequests, window, mwState, workers, traffic, watch, audit,
           now, tickerC,
           storeMu, limiters, heap, limMu,
           pc, req, clientID, limiter, allowed, resp,
           spc, sweepNow, todo, cur, hist, recent,
           apiKey, c, uuidGen, citizen, verdict >>

\* The state of the other middlewares (a Gin context passing through a chain)
\* and of the validation helpers.
ginVars == << apiKey, c, uuidGen >>
validateVars == << citizen, verdict >>

\* What no step of the rate limiter touches: its configuration and the state
\* of the rest of the package.
cfgVars == << kind, maxRequests, window, mwState, workers, traffic, watch, audit,
              ginVars, validateVars >>

limiterVars == << kind, maxRequests, window, mwState, workers, traffic, watch,
                  audit, now, tickerC, storeMu, limiters, heap, limMu,
                  pc, req, clientID, limiter, allowed, resp,
                  spc, sweepNow, todo, cur, hist, recent >>
sweepVars == << spc, sweepNow, todo, cur >>

Min(a, b) == IF a < b THEN a ELSE b
Max(a, b) == IF a > b THEN a ELSE b
Abs(a) == IF a < 0 THEN -a ELSE a

\* Go's integer division truncates toward zero; b # 0.
GoDiv(a, b) ==
    IF (a >= 0) = (b > 0) THEN Abs(a) \div Abs(b) ELSE -(Abs(a) \div Abs(b))

\* refillRate := window / time.Duration(maxRequests); panics when maxRequests = 0.
RefillRate(w, n) == GoDiv(w, n)

\* ---- requests and client-key derivation ----
Str(s) == [type |-> "string", val |-> s]
Uuid(s) == [type |-> "uuid", val |-> s]

\* ---- the Authorization header and the JWT it carries ----
\* jwt.Parse is a library call: `valid` says whether it accepts the token (HMAC
\* signature under the secret, not expired); userID is the token's user_id
\* claim.  uuid.Parse accepts exactly the texts of UuidTexts.
UuidTexts == {"u1"}
NoAuth == [scheme |-> "", valid |-> FALSE, userID |-> NoValue]
BasicAuth == [scheme |-> "Basic", valid |-> FALSE, userID |-> NoValue]
Bearer(ok, claim) == [scheme |-> "Bearer", valid |-> ok, userID |-> claim]

\* authorization.go lines 155-161: the value c.Set stores under user_id for an
\* accepted token, NoValue when none is stored.
UserIDFromToken(a) ==
    IF a.userID.type = "string" /\ a.userID.val \in UuidTexts
    THEN Uuid(a.userID.val) ELSE NoValue

\* The requests of the "user" policy: anonymous, with a string stored under
\* user_id by a middleware outside this package, and with the value this
\* package's JWT middleware stores for a valid token of user u1.
Requests(k) ==
    CASE k = "ip" -> {[ip |-> i, ident |-> NoValue] : i \in IPs}
      [] k = "user" -> {[ip |-> "ip1", ident |-> NoValue],
                        [ip |-> "ip1", ident |-> Str("u1")],
                        [ip |-> "ip2", ident |-> Str("u1")],
                        [ip |-> "ip1", ident |-> UserIDFromToken(Bearer(TRUE, Str("u1")))]}
      [] OTHER -> {[ip |-> "ip1", ident |-> Str("")],
                   [ip |-> "ip1", ident |-> Str("u1")],
                   [ip |-> "ip2", ident |-> Str("u1")]}

NoRequest == [ip |-> "", ident |-> NoValue]

\* userID.(string) panics when the context value is not a string.
KeyPanics(k, r) == k = "user" /\ r.ident.type = "uuid"

ClientKeyAlwaysIP(k, r) == r.ip

ClientKey(k, r) ==
    CASE k = "ip" -> r.ip
      [] k = "user" -> IF r.ident.type # "none" THEN r.ident.val ELSE r.ip
      [] OTHER -> IF r.ident.val = "" THEN r.ip ELSE r.ident.val

\* ---- responses ----
NoResp == [status |-> 0, code |-> "", aborted |-> FALSE, nextRan |-> FALSE,
           panicked |-> FALSE]

ErrorResponse(statusCode, code) ==
    [status |-> statusCode, code |-> code, aborted |-> FALSE, nextRan |-> FALSE,
     panicked |-> FALSE]

\* Gin: the rest of the chain runs when the function calls c.Next(), and also
\* after it returns without having called c.Abort(); a panic unwinds the chain.
Chain(written, calledAbort, calledNext, panics) ==
    [written EXCEPT !.aborted = calledAbort,
                    !.nextRan = ~panics /\ (calledNext \/ ~calledAbort),
                    !.panicked = panics]

\* Lines 136-142 (and 160-166, 191-197, 224-230): what the middleware function
\* does with the outcome a of limiter.Allow().
RespondNoAbort(a) ==
    CASE a = "false" ->
           Chain(ErrorResponse(StatusTooManyRequests, "RATE_LIMIT_EXCEEDED"),
                 FALSE, FALSE, FALSE)
      [] a = "true" -> Chain(NoResp, FALSE, TRUE, FALSE)
      [] OTHER -> Chain(NoResp, FALSE, FALSE, TRUE)

Respond(a) ==
    CASE a = "false" ->
           Chain(ErrorResponse(StatusTooManyRequests, "RATE_LIMIT_EXCEEDED"),
                 TRUE, FALSE, FALSE)
      [] a = "true" -> Chain(NoResp, FALSE, TRUE, FALSE)
      [] OTHER -> Chain(NoResp, FALSE, FALSE, TRUE)

\* ---- limiter objects ----
\* Limiter objects live in slots; a slot is reclaimed once the object is neither
\* in the registry nor referenced by a request goroutine (garbage collection).
Slots == 1..(Cardinality(Keys) + Cardinality(Handlers))

NewSlot == CHOOSE i \in Slots \ DOMAIN heap : \A j \in Slots \ DOMAIN heap : i <= j

Restrict(f, S) == [x \in S |-> f[x]]

Reachable(regs, refs) ==
    ({regs[k] : k \in Keys} \cup {refs[h] : h \in Handlers}) \ {0}

NewLimiterEmpty(maxTokens, refillRate, t) ==
    [tokens |-> 0, maxTokens |-> maxTokens, refillRate |-> refillRate,
     lastRefillTime |-> t]

\* Lines 71-76: the limiter GetLimiter creates.
NewLimiter(maxTokens, refillRate, t) ==
    [tokens |-> maxTokens, maxTokens |-> maxTokens, refillRate |-> refillRate,
     lastRefillTime |-> t]

\* Observations kept beside each limiter object; they record its history and
\* are never read by the program.
\*   key       the client key the object was created for
\*   evicted   the cleanup goroutine has deleted it from the registry
\*   refilled  some Allow call on it has taken the refill branch (line 94)
\*   burst     Allow calls that returned true before the first refill
\*   denied    some Allow call returned false before the first refill
\*   lastUse   time of its creation or of the latest Allow call on it
\* and, in audited runs only,
\*   created   time of its creation
\*   grants    Allow calls on it that returned true
NewHist(key, t) ==
    [key |-> key, evicted |-> FALSE, refilled |-> FALSE, burst |-> 0,
     denied |-> FALSE, lastUse |-> t,
     created |-> IF audit THEN t ELSE 0, grants |-> 0]

Granted(o, result) ==
    [o EXCEPT !.grants = IF audit /\ result = "true" THEN @ + 1 ELSE @]

Observe(o, r, filled, result, t) ==
    IF filled.lastRefillTime # r.lastRefillTime \/ o.refilled
    THEN [Granted(o, result) EXCEPT !.refilled = TRUE, !.burst = 0,
                                    !.denied = FALSE, !.lastUse = t]
    ELSE [Granted(o, result) EXCEPT !.burst = @ + (IF result = "true" THEN 1 ELSE 0),
                                    !.denied = @ \/ result = "false",
                                    !.lastUse = t]

RECURSIVE Sum(_)
Sum(s) == IF s = << >> THEN 0 ELSE Head(s) + Sum(Tail(s))

\* recent[k][a + 1]: requests of key k admitted at time now - a, for the last
\* `window` ticks.
Shift(s) == IF s = << >> THEN s ELSE << 0 >> \o SubSeq(s, 1, Len(s) - 1)
Admit(s) == IF s = << >> THEN s ELSE [s EXCEPT ![1] = @ + 1]

RefillNoCap(r, t) ==
    LET elapsed == t - r.lastRefillTime
        tokensToAdd == GoDiv(elapsed, r.refillRate)
    IN IF tokensToAdd > 0
       THEN [r EXCEPT !.tokens = r.tokens + tokensToAdd, !.lastRefillTime = t]
       ELSE r

RefillLate(r, t) ==
    LET elapsed == t - r.lastRefillTime
        tokensToAdd == GoDiv(elapsed - 1, r.refillRate)
    IN IF tokensToAdd > 0
       THEN [r EXCEPT !.tokens = Min(r.tokens + tokensToAdd, r.maxTokens),
                      !.lastRefillTime = t]
       ELSE r

RefillKeepClock(r, t) ==
    LET elapsed == t - r.lastRefillTime
        tokensToAdd == GoDiv(elapsed, r.refillRate)
    IN IF tokensToAdd > 0
       THEN [r EXCEPT !.tokens = Min(r.tokens + tokensToAdd, r.maxTokens)]
       ELSE r

\* Lines 89-100: the refill step of Allow on limiter record r at time t.
Refill(r, t) ==
    LET elapsed == t - r.lastRefillTime
        tokensToAdd == GoDiv(elapsed, r.refillRate)
    IN IF tokensToAdd > 0
       THEN [r EXCEPT !.tokens = Min(r.tokens + tokensToAdd, r.maxTokens),
                      !.lastRefillTime = t]
       ELSE r

ConsumeNone(r) == r

\* Lines 103-108: consume one token if there is one.
Consume(r) == IF r.tokens > 0 THEN [r EXCEPT !.tokens = r.tokens - 1] ELSE r

AllowResult(r) == IF r.tokens > 0 THEN "true" ELSE "false"

\* ---- Gin contexts and the auth, request-ID and recovery middlewares ----
\* A request ID is a string: << >> is the empty string, << "rid" >> an ID sent
\* by the client, << "uuid", n >> the n-th value of uuid.New().String().
EmptyString == << >>
NewUuidString(n) == << "uuid", n >>
ClientRequestIDs == {EmptyString, << "rid" >>}
APIKeyHeaders == {"", "k1", "k2"}
ConfiguredAPIKeys == {"", "k1"}
AuthHeaders ==
    {NoAuth, BasicAuth, Bearer(FALSE, Str("u1")), Bearer(TRUE, NoValue),
     Bearer(TRUE, [type |-> "number", val |-> "7"]), Bearer(TRUE, Str("bad")),
     Bearer(TRUE, Str("u1"))}

\* What the final handler of the chain does: write a 200 response or nothing,
\* then return or panic.
HandlerBehaviours == {"ok", "silent", "panic", "writeThenPanic"}

\* The middleware chains a request is routed through, each followed by the
\* final handler.
Chains ==
    {<< >>, << "APIKeyAuth" >>, << "JWTAuth" >>, << "RequestID" >>,
     << "ForceNewRequestID" >>, << "Recovery" >>, << "SimpleRecovery" >>,
     << "RequestID", "Recovery" >>, << "Recovery", "JWTAuth" >>,
     << "APIKeyOrJWTAuth" >>}

NoKeys == [k \in {} |-> FALSE]

\* gin.Context with the request it carries.  keys is c.Keys; recovery says a
\* deferred recover() of lines 16-38 (47-58) of recovery.go is pending;
\* panicking that a panic is unwinding the chain; panicked that it left the
\* chain; reached that the final handler ran; seenID is what GetRequestID
\* returned to the final handler.
IdleContext ==
    [stage |-> "idle", chain |-> << >>, ran |-> {}, apiKeyHeader |-> "",
     authHeader |-> NoAuth, requestIDHeader |-> EmptyString, handler |-> "ok",
     keys |-> NoKeys, written |-> FALSE, status |-> 0, code |-> "",
     respRequestID |-> EmptyString, aborted |-> FALSE, recovery |-> FALSE,
     panicking |-> FALSE, panicked |-> FALSE, reached |-> FALSE,
     seenID |-> EmptyString]

NewContext(ch, k, a, rid, hb) ==
    [IdleContext EXCEPT !.stage = "run", !.chain = ch, !.apiKeyHeader = k,
                        !.authHeader = a, !.requestIDHeader = rid, !.handler = hb]

\* c.Set(key, value) and c.Abort()
Set(ctx, key, value) == [ctx EXCEPT !.keys = (key :> value) @@ ctx.keys]
Abort(ctx) == [ctx EXCEPT !.aborted = TRUE]

\* helper.ErrorResponse -> c.JSON: Gin keeps the status of a response whose
\* headers were already written and only appends the body.
WriteJSON(ctx, statusCode, code) ==
    IF ctx.written THEN ctx
    ELSE [ctx EXCEPT !.written = TRUE, !.status = statusCode, !.code = code]

\* helper.IsAPIKeyAuth and helper.GetUserIDFromContext
IsAPIKeyAuth(ctx) ==
    "api_key_auth" \in DOMAIN ctx.keys /\ ctx.keys["api_key_auth"] = TRUE

HasUserID(ctx) ==
    "user_id" \in DOMAIN ctx.keys /\ ctx.keys["user_id"].type = "uuid"

\* request_id.go lines 69-74
GetRequestID(ctx) ==
    IF "request_id" \in DOMAIN ctx.keys THEN ctx.keys["request_id"]
    ELSE EmptyString

APIKeyAuthNoCompare(key, ctx) ==
    IF key = "" THEN ctx
    ELSE IF ctx.apiKeyHeader = ""
    THEN Abort(WriteJSON(ctx, StatusUnauthorized, "MISSING_API_KEY"))
    ELSE Set(ctx, "api_key_auth", TRUE)

\* authorization.go lines 23-47
APIKeyAuth(key, ctx) ==
    IF key = "" THEN ctx
    ELSE IF ctx.apiKeyHeader = ""
    THEN Abort(WriteJSON(ctx, StatusUnauthorized, "MISSING_API_KEY"))
    ELSE IF ctx.apiKeyHeader # key
    THEN Abort(WriteJSON(ctx, StatusUnauthorized, "INVALID_API_KEY"))
    ELSE Set(ctx, "api_key_auth", TRUE)

\* authorization.go lines 123-165
JWTAuth(ctx) ==
    LET a == ctx.authHeader
    IN IF a.scheme = ""
       THEN Abort(WriteJSON(ctx, StatusUnauthorized, "MISSING_TOKEN"))
       ELSE IF a.scheme # "Bearer"
       THEN Abort(WriteJSON(ctx, StatusUnauthorized, "INVALID_TOKEN_FORMAT"))
       ELSE IF ~a.valid
       THEN Abort(WriteJSON(ctx, StatusUnauthorized, "INVALID_TOKEN"))
       ELSE IF UserIDFromToken(a) # NoValue
       THEN Set(ctx, "user_id", UserIDFromToken(a))
       ELSE ctx

APIKeyOrJWTAuthNoEmptyCheck(key, ctx) ==
    IF ctx.apiKeyHeader = key
    THEN Set(ctx, "api_key_auth", TRUE)
    ELSE JWTAuth(ctx)

\* authorization.go lines 59-110: the API key first (lines 61-66), then the
\* Authorization header as in JWTAuthMiddleware but with MISSING_AUTH for a
\* missing header (lines 69-109).
APIKeyOrJWTAuth(key, ctx) ==
    LET a == ctx.authHeader
    IN IF ctx.apiKeyHeader # "" /\ key # "" /\ ctx.apiKeyHeader = key
       THEN Set(ctx, "api_key_auth", TRUE)
       ELSE IF a.scheme = ""
       THEN Abort(WriteJSON(ctx, StatusUnauthorized, "MISSING_AUTH"))
       ELSE IF a.scheme # "Bearer"
       THEN Abort(WriteJSON(ctx, StatusUnauthorized, "INVALID_TOKEN_FORMAT"))
       ELSE IF ~a.valid
       THEN Abort(WriteJSON(ctx, StatusUnauthorized, "INVALID_TOKEN"))
       ELSE IF UserIDFromToken(a) # NoValue
       THEN Set(ctx, "user_id", UserIDFromToken(a))
       ELSE ctx

RequestIDAlwaysNew(ctx, fresh) ==
    [Set(ctx, "request_id", fresh) EXCEPT !.respRequestID = fresh]

\* request_id.go lines 26-42; fresh is the value uuid.New().String() returns
\* if it is called.
RequestID(ctx, fresh) ==
    LET requestID == IF ctx.requestIDHeader = EmptyString THEN fresh
                     ELSE ctx.requestIDHeader
    IN [Set(ctx, "request_id", requestID) EXCEPT !.respRequestID = requestID]

\* request_id.go lines 54-63
ForceNewRequestID(ctx, fresh) ==
    [Set(ctx, "request_id", fresh) EXCEPT !.respRequestID = fresh]

RecoverNoAbort(ctx) ==
    [WriteJSON(ctx, StatusInternalServerError, "INTERNAL_SERVER_ERROR")
       EXCEPT !.panicking = FALSE, !.recovery = FALSE]

\* recovery.go lines 17-37 (48-57): the deferred function when recover()
\* returns a panic value.
Recover(ctx) ==
    [Abort(WriteJSON(ctx, StatusInternalServerError, "INTERNAL_SERVER_ERROR"))
       EXCEPT !.panicking = FALSE, !.recovery = FALSE]

\* The final handler.
RunHandler(ctx) ==
    LET seen == [ctx EXCEPT !.reached = TRUE, !.seenID = GetRequestID(ctx)]
        wrote == IF ctx.handler \in {"ok", "writeThenPanic"}
                 THEN WriteJSON(seen, StatusOK, "") ELSE seen
    IN [wrote EXCEPT !.panicking = ctx.handler \in {"panic", "writeThenPanic"}]

GinAtRest ==
    /\ apiKey = ""
    /\ c = IdleContext
    /\ uuidGen = 0

\* ---- helper.ValidCitizenId and helper.IsCompany ----
\* A Go string is a sequence of bytes.  Bytes are named by strings: the ASCII
\* digits and letters by themselves, and the two bytes C3 A9 of the UTF-8
\* encoding of U+00E9.
CitizenLen == 13
Digits == << "0", "1", "2", "3", "4", "5", "6", "7", "8", "9" >>
IsDigit(b) == \E i \in 1..Len(Digits) : Digits[i] = b

\* strconv.Atoi(string(r)) with the error dropped: the digit's value, and 0
\* when Atoi fails.
Atoi(b) == IF IsDigit(b) THEN (CHOOSE i \in 1..Len(Digits) : Digits[i] = b) - 1 ELSE 0

\* len([]rune(s)): C3 followed by A9 is one rune; every other byte, also a
\* stray C3 or A9 (decoded as U+FFFD), is a rune of its own.
RECURSIVE RuneCount(_)
RuneCount(s) ==
    IF s = << >> THEN 0
    ELSE IF Len(s) >= 2 /\ s[1] = "xC3" /\ s[2] = "xA9"
    THEN 1 + RuneCount(SubSeq(s, 3, Len(s)))
    ELSE 1 + RuneCount(Tail(s))

\* validate.go lines 199-212: for i from the rune count down to 1 append
\* string(rawString[i-1]), the one rune whose code point is that byte.  The
\* result is given as its sequence of runes, each named by the byte it came
\* from.
reverseString(rawString) ==
    LET n == RuneCount(rawString)
    IN [j \in 1..n |-> rawString[n - j + 1]]

RECURSIVE WeightedSum(_, _)
WeightedSum(revString, index) ==
    IF index >= CitizenLen THEN 0
    ELSE Atoi(revString[index + 1]) * (index + 1) + WeightedSum(revString, index + 1)

\* validate.go lines 217-240.  Indexing []rune(revString) beyond its length
\* panics.
ValidCitizenId(s) ==
    IF Len(s) # CitizenLen THEN "false"
    ELSE LET revString == reverseString(s)
         IN IF Len(revString) < CitizenLen THEN "panic"
            ELSE LET mod == WeightedSum(revString, 1) % 11
                     sub == 11 - mod
                     checkDigit == sub % 10
                 IN IF Atoi(revString[1]) = checkDigit THEN "true" ELSE "false"

\* validate.go lines 245-259
IsCompany(s) ==
    IF ValidCitizenId(s) # "true" THEN ValidCitizenId(s)
    ELSE IF ~IsDigit(s[1]) THEN "false"
    ELSE IF Atoi(s[1]) = 0 THEN "true" ELSE "false"

\* The strings the helpers are called with: two leading and two trailing
\* bytes of every kind around nine fixed digits, and the same strings one
\* byte shorter and one byte longer.
Bytes == {"0", "1", "5", "9", "a", "xC3", "xA9"}
Middles == {<< "0", "0", "0", "0", "0", "0", "0", "0", "0" >>,
            << "3", "4", "5", "6", "7", "8", "9", "2", "1" >>}
CitizenInputs ==
    LET full == {<< a, b >> \o m \o << y, z >> :
                    a \in Bytes, b \in Bytes, m \in Middles, y \in Bytes, z \in Bytes}
    IN full \cup {Tail(x) : x \in full} \cup {x \o << "0" >> : x \in full}

NoVerdict == [fn |-> "none", result |-> "none"]

\* ---- initial states ----
ValidConfig(n, w) == n >= 1 /\ w >= n

\* The explored worlds.  A world fixes which request goroutines run (workers),
\* which requests can arrive (traffic) and whether admissions are logged (watch):
\*   - one client of the IP limiter served by all goroutines, for every
\*     configuration;
\*   - all clients of every key policy served by one goroutine, and all clients
\*     of the IP limiter served by all goroutines, with a window of one tick.
Worlds(k, n, w) ==
    (IF k = "ip"
     THEN {[workers |-> Handlers, traffic |-> {[ip |-> "ip1", ident |-> NoValue]},
            watch |-> TRUE, audit |-> FALSE]}
     ELSE {})
    \cup (IF w = 1
          THEN {[workers |-> ws, traffic |-> Requests(k), watch |-> FALSE,
                 audit |-> FALSE] :
                  ws \in {{"h1"}} \cup (IF k = "ip" THEN {Handlers} ELSE {})}
          ELSE {})

\* The audited world: one client of the IP limiter served by all goroutines,
\* with every limiter's creation time and grants recorded.
AuditWorlds(k) ==
    IF k = "ip"
    THEN {[workers |-> Handlers, traffic |-> {[ip |-> "ip1", ident |-> NoValue]},
           watch |-> FALSE, audit |-> TRUE]}
    ELSE {}

InitWith(worlds) ==
    /\ kind \in Kinds
    /\ \E wd \in worlds :
         /\ workers = wd.workers
         /\ traffic = wd.traffic
         /\ watch = wd.watch
         /\ audit = wd.audit
    /\ mwState = IF maxRequests = 0 THEN "panicked" ELSE "ready"
    /\ now = 0
    /\ tickerC = FALSE
    /\ storeMu = Free
    /\ limiters = [k \in Keys |-> 0]
    /\ heap = << >>
    /\ limMu = << >>
    /\ hist = << >>
    /\ pc = [h \in Handlers |-> "idle"]
    /\ req = [h \in Handlers |-> NoRequest]
    /\ clientID = [h \in Handlers |-> ""]
    /\ limiter = [h \in Handlers |-> 0]
    /\ allowed = [h \in Handlers |-> "none"]
    /\ resp = [h \in Handlers |-> NoResp]
    /\ spc = "wait"
    /\ sweepNow = 0
    /\ todo = {}
    /\ cur = ""
    /\ recent = [k \in Keys |-> [a \in 1..Max(window, 0) |-> 0]]

InitCommon == InitWith(Worlds(kind, maxRequests, window))

ValidateAtRest ==
    /\ citizen = << >>
    /\ verdict = NoVerdict

Init ==
    /\ maxRequests \in 1..MaxRequests
    /\ window \in 1..MaxWindow
    /\ ValidConfig(maxRequests, window)
    /\ InitCommon
    /\ GinAtRest
    /\ ValidateAtRest

\* The constructors validate nothing: a zero maxRequests makes line 121 panic
\* after line 120 has started the cleanup goroutine, and every other pair is
\* accepted.  These are the configurations outside ValidConfig.
InitInvalid ==
    /\ maxRequests \in (-MaxNegative)..MaxRequests
    /\ window \in 0..MaxWindow
    /\ ~ValidConfig(maxRequests, window)
    /\ InitCommon
    /\ GinAtRest
    /\ ValidateAtRest

\* ---- the clock and the ticker ----
Tick ==
    /\ now < MaxTime
    /\ now' = now + 1
    /\ tickerC' = IF (now + 1) % CleanupInterval = 0 THEN TRUE ELSE tickerC
    /\ UNCHANGED << cfgVars, storeMu, limiters, heap, limMu,
                    pc, req, clientID, limiter, allowed, resp, sweepVars, hist >>
    /\ recent' = [k \in Keys |-> Shift(recent[k])]

\* ---- a request goroutine running the middleware ----
\* Lines 125-133: derive the client key and call GetLimiter (lines 63-79),
\* which runs under s.mu from Lock to the deferred Unlock.
\* Line 67: s.limiters[clientID]; 0 stands for a missing entry.
LookupAny(regs, key) ==
    IF regs[key] # 0 \/ \A k \in Keys : regs[k] = 0 THEN regs[key]
    ELSE regs[CHOOSE k \in Keys : regs[k] # 0]

Lookup(regs, key) == regs[key]

GetLimiterNoLookup(h, key) ==
    /\ heap' = heap @@ (NewSlot :> NewLimiter(maxRequests,
                                    RefillRate(window, maxRequests), now))
    /\ limMu' = limMu @@ (NewSlot :> Free)
    /\ hist' = hist @@ (NewSlot :> NewHist(key, now))
    /\ limiters' = [limiters EXCEPT ![key] = NewSlot]
    /\ limiter' = [limiter EXCEPT ![h] = NewSlot]

GetLimiter(h, key) ==
    IF Lookup(limiters, key) # 0
    THEN /\ limiter' = [limiter EXCEPT ![h] = Lookup(limiters, key)]
         /\ UNCHANGED << limiters, heap, limMu, hist >>
    ELSE /\ heap' = heap @@ (NewSlot :> NewLimiter(maxRequests,
                                         RefillRate(window, maxRequests), now))
         /\ limMu' = limMu @@ (NewSlot :> Free)
         /\ hist' = hist @@ (NewSlot :> NewHist(key, now))
         /\ limiters' = [limiters EXCEPT ![key] = NewSlot]
         /\ limiter' = [limiter EXCEPT ![h] = NewSlot]

HGetLimiter(h) ==
    /\ mwState = "ready"
    /\ h \in workers
    /\ pc[h] = "idle"
    /\ \E r \in traffic :
         /\ req' = [req EXCEPT ![h] = r]
         /\ allowed' = [allowed EXCEPT ![h] = "none"]
         /\ IF KeyPanics(kind, r)
            THEN /\ resp' = [resp EXCEPT ![h] = Respond("panic")]
                 /\ UNCHANGED << clientID, pc, limiter, limiters, heap, limMu, hist >>
            ELSE /\ storeMu = Free
                 /\ resp' = [resp EXCEPT ![h] = NoResp]
                 /\ clientID' = [clientID EXCEPT ![h] = ClientKey(kind, r)]
                 /\ GetLimiter(h, ClientKey(kind, r))
                 /\ pc' = [pc EXCEPT ![h] = "got"]
    /\ UNCHANGED << cfgVars, now, tickerC, storeMu, sweepVars, recent >>

HLimiterLockNoWait(h) ==
    /\ pc[h] = "got"
    /\ limMu' = [limMu EXCEPT ![limiter[h]] = h]
    /\ pc' = [pc EXCEPT ![h] = "allow"]
    /\ UNCHANGED << cfgVars, now, tickerC, storeMu, limiters, heap,
                    req, clientID, limiter, allowed, resp, sweepVars, hist, recent >>

\* Allow, line 86: r.mu.Lock()
HLimiterLock(h) ==
    /\ pc[h] = "got"
    /\ limMu[limiter[h]] = Free
    /\ limMu' = [limMu EXCEPT ![limiter[h]] = h]
    /\ pc' = [pc EXCEPT ![h] = "allow"]
    /\ UNCHANGED << cfgVars, now, tickerC, storeMu, limiters, heap,
                    req, clientID, limiter, allowed, resp, sweepVars, hist, recent >>

\* Allow, lines 89-108 with the deferred Unlock, then lines 136-142 of the
\* middleware.  A zero refillRate makes the division of line 93 panic; the
\* deferred Unlock still runs.
HAllow(h) ==
    LET id == limiter[h]
        r == heap[id]
        filled == Refill(r, now)
        result == IF r.refillRate = 0 THEN "panic" ELSE AllowResult(filled)
        heap1 == IF r.refillRate = 0 THEN heap
                 ELSE [heap EXCEPT ![id] = Consume(filled)]
        hist1 == IF r.refillRate = 0 THEN hist
                 ELSE [hist EXCEPT ![id] = Observe(@, r, filled, result, now)]
        refs == [limiter EXCEPT ![h] = 0]
        keep == Reachable(limiters, refs)
    IN /\ pc[h] = "allow"
       /\ allowed' = [allowed EXCEPT ![h] = result]
       /\ resp' = [resp EXCEPT ![h] = Respond(result)]
       /\ limiter' = refs
       /\ heap' = Restrict(heap1, keep)
       /\ hist' = Restrict(hist1, keep)
       /\ limMu' = Restrict([limMu EXCEPT ![id] = Free], keep)
       /\ req' = [req EXCEPT ![h] = NoRequest]
       /\ clientID' = [clientID EXCEPT ![h] = ""]
       /\ pc' = [pc EXCEPT ![h] = "idle"]
       /\ recent' = IF result = "true" /\ watch
                    THEN [recent EXCEPT ![clientID[h]] = Admit(@)] ELSE recent
       /\ UNCHANGED << cfgVars, now, tickerC, storeMu, limiters, sweepVars >>

\* ---- the cleanup goroutine ----
\* Lines 47-50: receive from ticker.C; s.mu.Lock(); now := time.Now(); start
\* ranging over the map.
SweepStart ==
    /\ spc = "wait"
    /\ tickerC
    /\ storeMu = Free
    /\ tickerC' = FALSE
    /\ storeMu' = Sweeper
    /\ todo' = {k \in Keys : limiters[k] # 0}
    /\ sweepNow' = IF todo' = {} THEN 0 ELSE now
    /\ spc' = "range"
    /\ UNCHANGED << cfgVars, now, limiters, heap, limMu,
                    pc, req, clientID, limiter, allowed, resp, cur, hist, recent >>

SweepLimiterLockNoWait ==
    /\ spc = "range"
    /\ \E k \in todo :
         /\ limMu' = [limMu EXCEPT ![limiters[k]] = Sweeper]
         /\ cur' = k
    /\ spc' = "check"
    /\ UNCHANGED << cfgVars, now, tickerC, storeMu, limiters, heap,
                    pc, req, clientID, limiter, allowed, resp, sweepNow, todo, hist, recent >>

\* Line 51: limiter.mu.Lock() for the next entry of the range.
SweepLimiterLock ==
    /\ spc = "range"
    /\ \E k \in todo :
         /\ limMu[limiters[k]] = Free
         /\ limMu' = [limMu EXCEPT ![limiters[k]] = Sweeper]
         /\ cur' = k
    /\ spc' = "check"
    /\ UNCHANGED << cfgVars, now, tickerC, storeMu, limiters, heap,
                    pc, req, clientID, limiter, allowed, resp, sweepNow, todo, hist, recent >>

ExpiredAtThreshold(r, t) == t - r.lastRefillTime >= IdleThreshold

ExpiredFlipped(r, t) == r.lastRefillTime - t > IdleThreshold

\* Line 53: the eviction test.
Expired(r, t) == t - r.lastRefillTime > IdleThreshold

\* Lines 53-56: delete the entry when expired; limiter.mu.Unlock().
SweepCheck ==
    LET id == limiters[cur]
        gone == Expired(heap[id], sweepNow)
        regs == IF gone THEN [limiters EXCEPT ![cur] = 0] ELSE limiters
        keep == Reachable(regs, limiter)
    IN /\ spc = "check"
       /\ limiters' = regs
       /\ heap' = Restrict(heap, keep)
       /\ hist' = Restrict(IF gone THEN [hist EXCEPT ![id].evicted = TRUE] ELSE hist, keep)
       /\ limMu' = Restrict([limMu EXCEPT ![id] = Free], keep)
       /\ todo' = todo \ {cur}
       /\ cur' = ""
       /\ spc' = "range"
       /\ sweepNow' = IF todo = {cur} THEN 0 ELSE sweepNow
       /\ UNCHANGED << cfgVars, now, tickerC, storeMu,
                       pc, req, clientID, limiter, allowed, resp, recent >>

SweepStoreUnlockForgotten ==
    /\ spc = "range"
    /\ todo = {}
    /\ spc' = "wait"
    /\ UNCHANGED << cfgVars, now, tickerC, storeMu, limiters, heap, limMu,
                    pc, req, clientID, limiter, allowed, resp, sweepNow, todo, cur,
                    hist, recent >>

\* Line 58: s.mu.Unlock() after the range.
SweepStoreUnlock ==
    /\ spc = "range"
    /\ todo = {}
    /\ storeMu' = Free
    /\ spc' = "wait"
    /\ UNCHANGED << cfgVars, now, tickerC, limiters, heap, limMu,
                    pc, req, clientID, limiter, allowed, resp, sweepNow, todo, cur,
                    hist, recent >>

HNext(h) ==
    \/ HGetLimiter(h)
    \/ HLimiterLock(h)
    \/ HAllow(h)

Next ==
    \/ Tick
    \/ \E h \in Handlers : HGetLimiter(h)
    \/ \E h \in Handlers : HLimiterLock(h)
    \/ \E h \in Handlers : HAllow(h)
    \/ SweepStart
    \/ SweepLimiterLock
    \/ SweepCheck
    \/ SweepStoreUnlock

Spec == Init /\ [][Next]_vars

SpecInvalid == InitInvalid /\ [][Next]_vars

InitAudit ==
    /\ maxRequests \in 1..MaxRequests
    /\ window \in 1..MaxWindow
    /\ ValidConfig(maxRequests, window)
    /\ InitWith(AuditWorlds(kind))
    /\ GinAtRest
    /\ ValidateAtRest

SpecAudit == InitAudit /\ [][Next]_vars

\* Scheduling.  A goroutine that can run does run (weak fairness of the steps
\* that wait for nothing), and sync.Mutex hands the lock to a goroutine that
\* has waited for it (starvation mode), so a goroutine waiting for a lock that
\* is free again and again gets it (strong fairness of the Lock steps).
\* Requests and clock ticks may stop coming.
Fairness ==
    /\ \A h \in Handlers : SF_vars(HLimiterLock(h)) /\ WF_vars(HAllow(h))
    /\ SF_vars(SweepStart)
    /\ SF_vars(SweepLimiterLock)
    /\ WF_vars(SweepCheck)
    /\ WF_vars(SweepStoreUnlock)

\* The worlds of the fair runs: the IP limiter with one client served by all
\* goroutines, and with all clients served by one goroutine.
FairWorlds(k) ==
    IF k = "ip"
    THEN {[workers |-> Handlers, traffic |-> {[ip |-> "ip1", ident |-> NoValue]},
           watch |-> FALSE, audit |-> FALSE],
          [workers |-> {"h1"}, traffic |-> Requests(k), watch |-> FALSE,
           audit |-> FALSE]}
    ELSE {}

InitFair ==
    /\ maxRequests = 1
    /\ window = 1
    /\ InitWith(FairWorlds(kind))
    /\ GinAtRest
    /\ ValidateAtRest

SpecFair == InitFair /\ [][Next]_vars /\ Fairness

\* ---- a request passing through a chain of the other middlewares ----
LimiterAtRest ==
    /\ kind = "ip"
    /\ maxRequests = 1
    /\ window = MaxWindow
    /\ InitCommon

InitGin ==
    /\ LimiterAtRest
    /\ apiKey \in ConfiguredAPIKeys
    /\ c = IdleContext
    /\ uuidGen = 0
    /\ ValidateAtRest

\* The router hands a new request to the chain.
Serve ==
    /\ c.stage = "idle"
    /\ uuidGen < MaxIDs
    /\ \E ch \in Chains, k \in APIKeyHeaders, a \in AuthHeaders,
          rid \in ClientRequestIDs, hb \in HandlerBehaviours :
         c' = NewContext(ch, k, a, rid, hb)
    /\ UNCHANGED << limiterVars, apiKey, uuidGen, validateVars >>

\* The next middleware function of the chain is due.
Due(name) ==
    /\ c.stage = "run"
    /\ ~c.aborted /\ ~c.panicking
    /\ c.chain # << >>
    /\ Head(c.chain) = name

\* c.Next() at the end of a middleware function: on to the rest of the chain.
Advance(ctx, name) == [ctx EXCEPT !.chain = Tail(ctx.chain), !.ran = @ \cup {name}]

APIKeyAuthMiddleware ==
    /\ Due("APIKeyAuth")
    /\ c' = Advance(APIKeyAuth(apiKey, c), "APIKeyAuth")
    /\ UNCHANGED << limiterVars, apiKey, uuidGen, validateVars >>

APIKeyOrJWTAuthMiddleware ==
    /\ Due("APIKeyOrJWTAuth")
    /\ c' = Advance(APIKeyOrJWTAuth(apiKey, c), "APIKeyOrJWTAuth")
    /\ UNCHANGED << limiterVars, apiKey, uuidGen, validateVars >>

JWTAuthMiddleware ==
    /\ Due("JWTAuth")
    /\ c' = Advance(JWTAuth(c), "JWTAuth")
    /\ UNCHANGED << limiterVars, apiKey, uuidGen, validateVars >>

RequestIDMiddleware ==
    /\ Due("RequestID")
    /\ c' = Advance(RequestID(c, NewUuidString(uuidGen + 1)), "RequestID")
    /\ uuidGen' = IF c.requestIDHeader = EmptyString THEN uuidGen + 1 ELSE uuidGen
    /\ UNCHANGED << limiterVars, apiKey, validateVars >>

ForceNewRequestIDMiddleware ==
    /\ Due("ForceNewRequestID")
    /\ c' = Advance(ForceNewRequestID(c, NewUuidString(uuidGen + 1)),
                    "ForceNewRequestID")
    /\ uuidGen' = uuidGen + 1
    /\ UNCHANGED << limiterVars, apiKey, validateVars >>

\* RecoveryMiddleware and SimpleRecoveryMiddleware: register the deferred
\* function and call c.Next().
RecoveryMiddleware ==
    /\ \E name \in {"Recovery", "SimpleRecovery"} :
         /\ Due(name)
         /\ c' = Advance([c EXCEPT !.recovery = TRUE], name)
    /\ UNCHANGED << limiterVars, apiKey, uuidGen, validateVars >>

Handler ==
    /\ c.stage = "run"
    /\ ~c.aborted /\ ~c.panicking
    /\ c.chain = << >>
    /\ ~c.reached
    /\ c' = RunHandler(c)
    /\ UNCHANGED << limiterVars, apiKey, uuidGen, validateVars >>

\* The chain unwinds: a pending deferred function recovers a panic; without
\* one the panic leaves the chain.
Unwind ==
    /\ c.stage = "run"
    /\ c.aborted \/ c.panicking \/ c.reached
    /\ c' = [(IF c.panicking
              THEN IF c.recovery THEN Recover(c)
                   ELSE [c EXCEPT !.panicked = TRUE, !.panicking = FALSE]
              ELSE c) EXCEPT !.stage = "done"]
    /\ UNCHANGED << limiterVars, apiKey, uuidGen, validateVars >>

\* The response is sent and Gin takes the context back.
Release ==
    /\ c.stage = "done"
    /\ c' = IdleContext
    /\ UNCHANGED << limiterVars, apiKey, uuidGen, validateVars >>

NextGin ==
    \/ Serve
    \/ APIKeyAuthMiddleware
    \/ APIKeyOrJWTAuthMiddleware
    \/ JWTAuthMiddleware
    \/ RequestIDMiddleware
    \/ ForceNewRequestIDMiddleware
    \/ RecoveryMiddleware
    \/ Handler
    \/ Unwind
    \/ Release

SpecGin == InitGin /\ [][NextGin]_vars

\* ---- calls of the validation helpers ----
InitValidate ==
    /\ LimiterAtRest
    /\ GinAtRest
    /\ citizen \in CitizenInputs
    /\ verdict = NoVerdict

CallValidCitizenId ==
    /\ verdict.fn = "none"
    /\ verdict' = [fn |-> "ValidCitizenId", result |-> ValidCitizenId(citizen)]
    /\ UNCHANGED << limiterVars, ginVars, citizen >>

CallIsCompany ==
    /\ verdict.fn = "none"
    /\ verdict' = [fn |-> "IsCompany", result |-> IsCompany(citizen)]
    /\ UNCHANGED << limiterVars, ginVars, citizen >>

NextValidate ==
    \/ CallValidCitizenId
    \/ CallIsCompany

SpecValidate == InitValidate /\ [][NextValidate]_vars

\* ---- properties ----
TypeOK ==
    /\ now \in 0..MaxTime
    /\ DOMAIN heap \subseteq Slots
    /\ DOMAIN limMu = DOMAIN heap
    /\ DOMAIN hist = DOMAIN heap
    /\ Reachable(limiters, limiter) = DOMAIN heap

Live == DOMAIN heap

InCritical(id) == {h \in Handlers : pc[h] = "allow" /\ limiter[h] = id}

\* C1: every limiter object holds between 0 and maxTokens tokens in every
\* state, whatever time has passed between the calls.
TokensWithinCapacity ==
    \A id \in Live : 0 <= heap[id].tokens /\ heap[id].tokens <= heap[id].maxTokens

\* A limiter that sat idle for the whole run was refilled by a late Allow call
\* and is back at capacity minus the token just consumed.
IdleLimiterRefilled ==
    \E id \in Live :
        /\ hist[id].refilled
        /\ heap[id].lastRefillTime = MaxTime
        /\ heap[id].maxTokens = MaxRequests
        /\ heap[id].tokens = heap[id].maxTokens - 1
        /\ RefillRate(window, maxRequests) = 1

\* C2: at the instant a limiter is created, an Allow call returns true exactly
\* when fewer than N = maxTokens calls have returned true before it, so the
\* first N calls are allowed and every later one is denied.
FirstNAllowedThenDenied ==
    [][\A h \in Handlers :
         (HAllow(h) /\ ~hist[limiter[h]].refilled
                    /\ heap[limiter[h]].lastRefillTime = now)
         => ((allowed'[h] = "true") <=> (hist[limiter[h]].burst < maxRequests))]_vars

\* N calls were allowed and a further one denied, all at the creation instant.
BurstExhausted ==
    \E id \in Live :
        /\ ~hist[id].refilled
        /\ heap[id].lastRefillTime = now
        /\ heap[id].maxTokens = MaxRequests
        /\ hist[id].burst = MaxRequests
        /\ hist[id].denied

\* C3: in every interval of `window` ticks at most maxRequests requests of one
\* client key are admitted.
AtMostMaxRequestsPerWindow ==
    watch => \A k \in Keys : Sum(recent[k]) <= maxRequests

\* C4: every limiter object that was created and not evicted is the one the
\* registry maps its key to, and goroutines that looked up the same key hold
\* the same object unless the object they hold has been evicted.
OneLimiterPerKey ==
    /\ \A id \in Live : ~hist[id].evicted => limiters[hist[id].key] = id
    /\ \A h \in Handlers : limiter[h] # 0 =>
          /\ hist[limiter[h]].key = clientID[h]
          /\ hist[limiter[h]].evicted \/ limiters[clientID[h]] = limiter[h]
    /\ \A h1, h2 \in Handlers :
          (/\ limiter[h1] # 0 /\ limiter[h2] # 0
           /\ clientID[h1] = clientID[h2]
           /\ ~hist[limiter[h1]].evicted /\ ~hist[limiter[h2]].evicted)
          => limiter[h1] = limiter[h2]

\* Two goroutines looked up the same unseen key at the same instant and hold
\* the one object created for it.
SharedFreshLimiter ==
    /\ pc["h1"] = "got" /\ pc["h2"] = "got"
    /\ clientID["h1"] = clientID["h2"]
    /\ limiter["h1"] = limiter["h2"]
    /\ hist[limiter["h1"]].lastUse = now
    /\ ~hist[limiter["h1"]].refilled
    /\ heap[limiter["h1"]].tokens = heap[limiter["h1"]].maxTokens

\* C5: at most one goroutine is inside Allow's critical section of a limiter,
\* and while no refill has happened every allowed call has taken exactly one
\* token: tokens + allowed calls = N, and a call is denied only after N
\* calls were allowed.
AllowIsAtomic ==
    \A id \in Live :
        /\ Cardinality(InCritical(id)) <= 1
        /\ \A h \in InCritical(id) : limMu[id] = h
        /\ ~hist[id].refilled =>
              /\ heap[id].tokens + hist[id].burst = heap[id].maxTokens
              /\ hist[id].denied => hist[id].burst = heap[id].maxTokens

\* Two goroutines called Allow on a limiter of capacity 1 with no refill due:
\* one was allowed, the other denied.
TwoCallersOneToken ==
    /\ allowed["h1"] = "true" /\ allowed["h2"] = "false"
    /\ pc["h1"] = "idle" /\ pc["h2"] = "idle"
    /\ \E id \in Live :
          /\ heap[id].maxTokens = 1
          /\ ~hist[id].refilled
          /\ hist[id].burst = 1
          /\ hist[id].denied

\* C6: an Allow call made when at least one refillRate has passed since the
\* limiter was last used (created or called) sees at least one token more than
\* the limiter held, up to maxTokens, and so returns true.
RefillAfterInterval ==
    [][\A h \in Handlers :
         (HAllow(h) /\ now - hist[limiter[h]].lastUse >= heap[limiter[h]].refillRate)
         => /\ allowed'[h] = "true"
            /\ limiter[h] \in DOMAIN heap' =>
                 heap'[limiter[h]].tokens + 1 >=
                    Min(heap[limiter[h]].tokens + 1, heap[limiter[h]].maxTokens)]_vars

\* An exhausted limiter of capacity 2 or more got one token back by a refill
\* and the call that triggered the refill was allowed.
ExhaustedThenRefilled ==
    \E id \in Live :
        /\ hist[id].refilled
        /\ heap[id].maxTokens >= 2
        /\ heap[id].tokens = 0
        /\ heap[id].lastRefillTime = now
        /\ hist[id].lastUse = now
        /\ \E h \in Handlers : pc[h] = "idle" /\ allowed[h] = "true"

\* C7: a step of a request goroutine working for one key changes neither the
\* registry entry nor the limiter object of any other key.
StepKey(h) == IF pc[h] = "idle" THEN clientID'[h] ELSE clientID[h]

OtherKeysUntouched ==
    [][\A h \in Handlers : HNext(h) =>
         \A k \in Keys : (k # StepKey(h) /\ limiters[k] # 0) =>
             /\ limiters'[k] = limiters[k]
             /\ heap'[limiters[k]] = heap[limiters[k]]]_vars

\* Key ip1 is exhausted and was denied while the limiter of ip2 is still full.
OneKeyExhaustedOtherFull ==
    /\ limiters["ip1"] # 0 /\ limiters["ip2"] # 0
    /\ heap[limiters["ip1"]].tokens = 0
    /\ hist[limiters["ip1"]].denied
    /\ heap[limiters["ip2"]].tokens = heap[limiters["ip2"]].maxTokens

\* C8: when the sweep examines an entry whose limiter has not been used for
\* more than IdleThreshold it removes the entry; GetLimiter for a key without
\* an entry registers a new limiter holding maxTokens tokens; and the first
\* Allow call on a limiter nobody has called yet returns true.
Untouched(id) == ~hist[id].refilled /\ hist[id].burst = 0 /\ ~hist[id].denied

IdleKeyEvictedThenFresh ==
    [][/\ (SweepCheck /\ sweepNow - hist[limiters[cur]].lastUse > IdleThreshold)
            => limiters'[cur] = 0
       /\ \A h \in Handlers :
            (HGetLimiter(h) /\ pc'[h] = "got" /\ limiters[clientID'[h]] = 0)
            => /\ limiters'[clientID'[h]] = limiter'[h]
               /\ limiter'[h] \notin Live
               /\ heap'[limiter'[h]].tokens = maxRequests
               /\ heap'[limiter'[h]].lastRefillTime = now
       /\ \A h \in Handlers :
            (HAllow(h) /\ Untouched(limiter[h])) => allowed'[h] = "true"]_vars

\* A limiter was evicted and the key got a new limiter whose first call was
\* allowed.
EvictedAndRecreated ==
    \E old, new \in Live :
        /\ hist[old].evicted
        /\ hist[new].key = hist[old].key
        /\ limiters[hist[new].key] = new
        /\ ~hist[new].refilled
        /\ hist[new].burst = 1
        /\ heap[new].tokens = heap[new].maxTokens - 1

\* C9: the sweep removes an entry only when the limiter has not been used
\* (created or called) during the last IdleThreshold before the sweep's clock
\* reading.
SweepKeepsRecentlyUsed ==
    [][(SweepCheck /\ limiters'[cur] = 0)
         => sweepNow - hist[limiters[cur]].lastUse >= IdleThreshold]_vars

\* C10: a request whose Allow call returned false got status 429 with code
\* RATE_LIMIT_EXCEEDED, was aborted and did not reach the next handler; a
\* request whose Allow call returned true reached the next handler and got no
\* response from the middleware.
DeniedIs429AllowedIsNext ==
    \A h \in Handlers :
        /\ allowed[h] = "false" =>
              /\ resp[h].status = StatusTooManyRequests
              /\ resp[h].code = "RATE_LIMIT_EXCEEDED"
              /\ resp[h].aborted
              /\ ~resp[h].nextRan
        /\ allowed[h] = "true" =>
              /\ resp[h].nextRan
              /\ ~resp[h].aborted
              /\ resp[h].status = 0

\* A request was denied by the custom-key middleware.
RequestDenied ==
    \E h \in Handlers :
        /\ kind = "custom"
        /\ allowed[h] = "false"
        /\ resp[h].status = StatusTooManyRequests

\* C11: a request the user/IP middleware has finished with was either passed
\* to the next handler or answered with 429, and while it is being served its
\* client key is the user ID the JWT middleware stored, if it stored one, and
\* the client IP otherwise.
UserLimitPassesOr429 ==
    kind = "user" =>
      \A h \in Handlers :
        /\ (pc[h] = "idle" /\ resp[h] # NoResp) =>
              (resp[h].nextRan \/ resp[h].status = StatusTooManyRequests)
        /\ pc[h] # "idle" =>
              clientID[h] = (IF req[h].ident.type = "none" THEN req[h].ip
                             ELSE req[h].ident.val)

\* C12: no limiter object has a capacity of zero or less, and no request
\* goroutine is inside Allow under a configuration with maxRequests <= 0.
NonPositiveRejected ==
    /\ \A id \in Live : heap[id].maxTokens > 0
    /\ \A h \in Handlers : pc[h] = "allow" => maxRequests > 0

\* C13: every Allow call returns true or false; none ends in a panic.
AllowReturnsBoolean ==
    \A h \in Handlers : allowed[h] \in {"none", "true", "false"}

\* C14: the cleanup goroutine of a store whose construction was abandoned
\* (line 121 panicked, nothing refers to the store any more) has stopped by
\* the end of the run: it starts no sweep at the last instant.
Discarded == mwState = "panicked"

DiscardedStoreStopsSweeping ==
    [][(Discarded /\ now = MaxTime) => ~SweepStart]_vars

\* C15, as the code has it: with a non-empty configured apiKey a request
\* reaches the handler only if its API-Key header equals it, and then
\* api_key_auth is true; an empty header is answered 401 MISSING_API_KEY and a
\* different one 401 INVALID_API_KEY, both aborted.  With an empty configured
\* apiKey the middleware passes every request on and sets nothing.
Rejected(code) ==
    /\ c.status = StatusUnauthorized
    /\ c.code = code
    /\ c.aborted
    /\ ~c.reached

Guarded ==
    /\ c.reached => (c.apiKeyHeader = apiKey /\ IsAPIKeyAuth(c))
    /\ c.apiKeyHeader = "" => Rejected("MISSING_API_KEY")
    /\ c.apiKeyHeader \notin {"", apiKey} => Rejected("INVALID_API_KEY")

ConfiguredAPIKeyGuards ==
    "APIKeyAuth" \in c.ran =>
        IF apiKey # "" THEN Guarded
        ELSE ~c.aborted /\ ~IsAPIKeyAuth(c) /\ c.status \in {0, StatusOK}

\* A request with the configured key reached the handler, marked as
\* authenticated by API key.
APIKeyAccepted ==
    /\ "APIKeyAuth" \in c.ran
    /\ apiKey = "k1" /\ c.apiKeyHeader = "k1"
    /\ c.reached /\ IsAPIKeyAuth(c)
    /\ c.stage = "done"

\* C15 as stated: whatever the configured apiKey, only requests whose header
\* equals it reach the handler, with api_key_auth true, and all others get 401.
APIKeyGuards == "APIKeyAuth" \in c.ran => Guarded

\* C16: a request JWTAuthMiddleware passed on carried a valid Bearer token and
\* has the token's user_id in the context under user_id.
JWTPassesOnlyIdentified ==
    ("JWTAuth" \in c.ran /\ ~c.aborted) =>
        /\ c.authHeader.scheme = "Bearer"
        /\ c.authHeader.valid
        /\ HasUserID(c)
        /\ c.keys["user_id"] = Uuid(c.authHeader.userID.val)

\* C17: after RequestIDMiddleware the context and the response header hold the
\* same non-empty ID, the client's if it sent a non-empty one and otherwise
\* the value uuid.New() has just returned; ForceNewRequestIDMiddleware stores
\* the value uuid.New() has just returned whatever the client sent; the
\* handler's GetRequestID returns the stored ID, and the empty string when no
\* request-ID middleware ran.
StoredRequestID ==
    /\ (c.ran \cap {"RequestID", "ForceNewRequestID"} # {}) =>
          /\ GetRequestID(c) = c.respRequestID
          /\ GetRequestID(c) # EmptyString
    /\ "RequestID" \in c.ran =>
          GetRequestID(c) = (IF c.requestIDHeader # EmptyString
                             THEN c.requestIDHeader ELSE NewUuidString(uuidGen))
    /\ "ForceNewRequestID" \in c.ran => GetRequestID(c) = NewUuidString(uuidGen)
    /\ c.reached =>
          c.seenID = (IF c.ran \cap {"RequestID", "ForceNewRequestID"} = {}
                      THEN EmptyString ELSE GetRequestID(c))

RequestIDStoredAndFresh ==
    [][/\ StoredRequestID'
       /\ (RequestIDMiddleware /\ c.requestIDHeader = EmptyString) => uuidGen' > uuidGen
       /\ ForceNewRequestIDMiddleware => uuidGen' > uuidGen]_vars

\* The client's request ID went through to the context, the response header
\* and the handler.
ClientRequestIDKept ==
    /\ "RequestID" \in c.ran
    /\ c.requestIDHeader = << "rid" >>
    /\ c.respRequestID = << "rid" >>
    /\ c.reached /\ c.seenID = << "rid" >>
    /\ c.stage = "done"

\* C18, as the code has it: a panic of a handler behind a recovery middleware
\* does not leave the chain and the request is aborted; it is answered with
\* 500 INTERNAL_SERVER_ERROR if no response had been written before the panic,
\* and keeps the status already written otherwise; without a panic the
\* middleware writes nothing and aborts nothing.
Recovering == c.stage = "done" /\ c.ran \cap {"Recovery", "SimpleRecovery"} # {}

HandlerPanicked == c.reached /\ c.handler \in {"panic", "writeThenPanic"}

PanicRecoveredUnlessWritten ==
    Recovering =>
        IF HandlerPanicked
        THEN /\ ~c.panicked
             /\ c.aborted
             /\ c.handler = "panic" =>
                   /\ c.status = StatusInternalServerError
                   /\ c.code = "INTERNAL_SERVER_ERROR"
             /\ c.handler = "writeThenPanic" => c.status = StatusOK
        ELSE /\ c.code # "INTERNAL_SERVER_ERROR"
             /\ c.status # StatusInternalServerError
             /\ c.reached => ~c.aborted

\* A handler panicked before writing and the request got the 500 answer.
PanicAnswered500 ==
    /\ Recovering
    /\ c.handler = "panic" /\ c.reached
    /\ c.status = StatusInternalServerError
    /\ c.aborted /\ ~c.panicked

\* C18 as stated: every panic of a handler behind the recovery middleware is
\* answered with 500 INTERNAL_SERVER_ERROR.
PanicAlways500 ==
    (Recovering /\ HandlerPanicked) =>
        /\ ~c.panicked
        /\ c.aborted
        /\ c.status = StatusInternalServerError
        /\ c.code = "INTERNAL_SERVER_ERROR"

\* C19: ValidCitizenId returns true exactly for the strings of 13 decimal
\* digits d_1..d_13 with d_13 = (11 - (sum of d_i * (14 - i), i = 1..12) mod 11)
\* mod 10 and false for every other string; IsCompany returns true exactly
\* when ValidCitizenId does and d_1 = 0.
RECURSIVE Mod11Sum(_, _)
Mod11Sum(s, i) ==
    IF i > 12 THEN 0 ELSE Atoi(s[i]) * (14 - i) + Mod11Sum(s, i + 1)

Mod11Valid(s) ==
    /\ Len(s) = 13
    /\ \A i \in 1..13 : IsDigit(s[i])
    /\ Atoi(s[13]) = ((11 - (Mod11Sum(s, 1) % 11)) % 10)

Truth(b) == IF b THEN "true" ELSE "false"

CitizenIdIsMod11 ==
    /\ verdict.fn = "ValidCitizenId" => verdict.result = Truth(Mod11Valid(citizen))
    /\ verdict.fn = "IsCompany" =>
          verdict.result = Truth(Mod11Valid(citizen) /\ citizen[1] = "0")

\* C20: an Allow call at time now on a limiter with fields r computes
\* tokensToAdd = floor((now - lastRefillTime) / refillRate); if that is
\* positive the limiter gets min(tokens + tokensToAdd, maxTokens) tokens and
\* lastRefillTime = now, otherwise both stay; then the call takes one token and
\* returns true iff there is one.
FlooredRefill(r, t) ==
    LET tokensToAdd == (t - r.lastRefillTime) \div r.refillRate
    IN [tokens |-> IF tokensToAdd > 0
                   THEN (IF r.tokens + tokensToAdd < r.maxTokens
                         THEN r.tokens + tokensToAdd ELSE r.maxTokens)
                   ELSE r.tokens,
        lastRefillTime |-> IF tokensToAdd > 0 THEN t ELSE r.lastRefillTime]

RefillThenConsume ==
    [][\A h \in Handlers : HAllow(h) =>
         LET id == limiter[h]
             f == FlooredRefill(heap[id], now)
         IN /\ allowed'[h] = (IF f.tokens > 0 THEN "true" ELSE "false")
            /\ id \in DOMAIN heap' =>
                 /\ heap'[id].tokens = (IF f.tokens > 0 THEN f.tokens - 1 ELSE f.tokens)
                 /\ heap'[id].lastRefillTime = f.lastRefillTime
                 /\ heap'[id].maxTokens = heap[id].maxTokens
                 /\ heap'[id].refillRate = heap[id].refillRate]_vars

\* A limiter of capacity 2 refilling every 2 ticks was refilled at time 3, one
\* tick of the elapsed time being dropped or none, and the token was spent.
RefilledWithRemainder ==
    \E id \in Live :
        /\ hist[id].refilled
        /\ heap[id].refillRate = 2
        /\ heap[id].maxTokens = 2
        /\ now = 3
        /\ heap[id].lastRefillTime = now
        /\ heap[id].tokens = 0

\* C21: while the sweep inspects or deletes an entry (lines 52-55) it holds
\* that limiter's lock and no Allow call is inside the limiter's critical
\* section.
SweepExcludesAllow ==
    spc = "check" =>
        /\ limMu[limiters[cur]] = Sweeper
        /\ InCritical(limiters[cur]) = {}

\* The sweep is inspecting a limiter that a request goroutine has looked up
\* and is waiting to call Allow on.
SweepInspectsWhileAllowWaits ==
    /\ spc = "check"
    /\ \E h \in Handlers : pc[h] = "got" /\ limiter[h] = limiters[cur]

\* C23: the cleanup goroutine is never blocked at line 51 on limiter locks
\* held by Allow calls while it holds the registry lock (which keeps every
\* GetLimiter call waiting, for any key).
SweeperBlocked ==
    /\ spc = "range"
    /\ todo # {}
    /\ \A k \in todo : limMu[limiters[k]] \in Handlers

RegistryLockNotHeldWhileWaiting == ~(storeMu = Sweeper /\ SweeperBlocked)

\* C24: the step of a sweep pass on an entry removes it exactly when the
\* pass's clock reading minus the limiter's lastRefillTime exceeds
\* IdleThreshold, touches no other entry and changes no field of any limiter;
\* a pass examines every entry of the registry and ends only when it has.
SweepRemovesExactlyExpired ==
    [][/\ SweepCheck =>
            /\ (limiters'[cur] = 0) <=>
                 (sweepNow - heap[limiters[cur]].lastRefillTime > IdleThreshold)
            /\ \A k \in Keys \ {cur} : limiters'[k] = limiters[k]
            /\ \A id \in DOMAIN heap' : heap'[id] = heap[id]
       /\ SweepStart =>
            /\ todo' = {k \in Keys : limiters[k] # 0}
            /\ UNCHANGED << limiters, heap >>
       /\ SweepStoreUnlock => (todo = {} /\ UNCHANGED << limiters, heap >>)]_vars

\* A pass at the end of the run has removed a limiter created at time 0,
\* whose fields are as they were, and has another entry still to examine.
ExpiredEntryRemoved ==
    /\ spc = "range"
    /\ todo # {}
    /\ \E id \in Live :
          /\ hist[id].evicted
          /\ ~hist[id].refilled
          /\ heap[id].lastRefillTime = 0
          /\ heap[id].tokens = heap[id].maxTokens - hist[id].burst

EvictionGrantsNoCapacity ==
    [][(SweepCheck /\ limiters'[cur] = 0) =>
          Refill(heap[limiters[cur]], sweepNow).tokens
             = heap[limiters[cur]].maxTokens]_vars

\* C29: a request goroutine inside Allow works on the limiter the registry
\* maps its client key to.
AllowOnRegisteredLimiter ==
    \A h \in Handlers : pc[h] = "allow" => limiters[clientID[h]] = limiter[h]

\* C26: after APIKeyOrJWTAuthMiddleware a request with a non-empty API-Key
\* header equal to the configured key is passed on with api_key_auth true and
\* nothing taken from its Authorization header; any other request is passed
\* on iff its Authorization header is a Bearer header with a valid token, and
\* is otherwise aborted with 401 and MISSING_AUTH, INVALID_TOKEN_FORMAT or
\* INVALID_TOKEN, in that order of tests.
KeyMatches == c.apiKeyHeader # "" /\ c.apiKeyHeader = apiKey

APIKeyFirstThenJWT ==
    "APIKeyOrJWTAuth" \in c.ran =>
        IF KeyMatches
        THEN /\ ~c.aborted
             /\ IsAPIKeyAuth(c)
             /\ "user_id" \notin DOMAIN c.keys
             /\ c.status \in {0, StatusOK}
        ELSE /\ ~IsAPIKeyAuth(c)
             /\ c.aborted <=> ~(c.authHeader.scheme = "Bearer" /\ c.authHeader.valid)
             /\ c.authHeader.scheme = "" => Rejected("MISSING_AUTH")
             /\ c.authHeader.scheme = "Basic" => Rejected("INVALID_TOKEN_FORMAT")
             /\ (c.authHeader.scheme = "Bearer" /\ ~c.authHeader.valid)
                   => Rejected("INVALID_TOKEN")

\* A request with a wrong API key and a valid Bearer token reached the
\* handler through the JWT fallback.
FellBackToJWT ==
    /\ "APIKeyOrJWTAuth" \in c.ran
    /\ apiKey = "k1" /\ c.apiKeyHeader = "k2"
    /\ c.authHeader.scheme = "Bearer" /\ c.authHeader.valid
    /\ c.reached /\ ~c.aborted /\ HasUserID(c)
    /\ c.stage = "done"

\* C27: at every time the Allow calls on a limiter that have returned true
\* number at most maxTokens + floor((now - creation time) / refillRate).
GrantsWithinBudget ==
    \A id \in Live :
        hist[id].grants <=
            heap[id].maxTokens + ((now - hist[id].created) \div heap[id].refillRate)

\* A limiter of capacity 2 has granted its whole budget, refills included.
BudgetSpent ==
    \E id \in Live :
        /\ heap[id].maxTokens = 2
        /\ hist[id].refilled
        /\ hist[id].grants >= 4
        /\ hist[id].grants =
              heap[id].maxTokens + ((now - hist[id].created) \div heap[id].refillRate)

\* C22: under fair scheduling every goroutine that asks for a lock gets it: a
\* request goroutine that has looked up its limiter enters Allow, the cleanup
\* goroutine gets the registry lock after a tick and the lock of every entry
\* it ranges over, and it releases the registry lock again, so that GetLimiter
\* calls wait only for a while; and locks are taken in one order: nobody
\* inside a limiter's critical section holds or asks for the registry lock,
\* except the cleanup goroutine, which took the registry lock first.
LockOrder ==
    /\ storeMu \in {Free, Sweeper}
    /\ \A id \in Live : limMu[id] = Sweeper => (storeMu = Sweeper /\ spc = "check")

NoDeadlockLocksGranted ==
    /\ []LockOrder
    /\ \A h \in Handlers : (pc[h] = "got") ~> (pc[h] = "allow")
    /\ (spc = "wait" /\ tickerC) ~> (storeMu = Sweeper)
    /\ (spc = "range" /\ todo # {}) ~> (spc = "check")
    /\ (storeMu = Sweeper) ~> (storeMu = Free)

\* A request goroutine waits for the lock of its limiter, which the cleanup
\* goroutine holds together with the registry lock.
HandlerWaitsForSweeper ==
    \E h \in Handlers :
        /\ pc[h] = "got"
        /\ limMu[limiter[h]] = Sweeper
        /\ storeMu = Sweeper

====
